---- MODULE Spec2Model ----
(***************************************************************************)
(* Model of src/src/main.rs: main() deletes the destination object and     *)
(* then runs upload_file(), which opens a multipart upload, plans the      *)
(* chunks of the file, uploads them one by one and completes the upload.   *)
(* Every await on the storage backend or on the file system is one step;   *)
(* the backend and the file system answer nondeterministically.            *)
(*                                                                         *)
(* Sizes are scaled: the source has CHUNK_SIZE = 5 MiB and                 *)
(* MAX_CHUNKS = 10000; the model keeps the arithmetic of the source and    *)
(* uses small values of the two constants so that every boundary           *)
(* (empty file, exact multiple, MAX_CHUNKS * CHUNK_SIZE + 1) is reached.   *)
(***************************************************************************)
EXTENDS Integers, Sequences, FiniteSets, TLC

\* main.rs:20 (scaled from 1024 * 1024 * 5)
CHUNK_SIZE == 3
\* main.rs:21 (scaled from 10000)
MAX_CHUNKS == 3
\* largest file length the file system reports in the model
MaxFileSize == CHUNK_SIZE * (MAX_CHUNKS + 1) + 1
\* main.rs:129: the largest value of an i32
I32Max == 2147483647

\* main.rs:180-181
bucket_name == "s3-upload-test-jmc1984"
key == "sample.txt"

\* upload ids the backend may hand out; NoUploadId is the unset local
UploadIds == {"u1", "u2"}
NoUploadId == "none"
\* entity tags the backend may return for a part
ETags == {"t1", "t2"}

\* Option<String> of the SDK responses
None == [some |-> FALSE, v |-> ""]
Some(x) == [some |-> TRUE, v |-> x]
\* Option::unwrap_or_default on a String (main.rs:143)
unwrap_or_default(opt) == IF opt.some THEN opt.v ELSE ""

\* `chunk_index as i32` (main.rs:129), for values below 2^32
AsI32(x) == IF x <= I32Max THEN x ELSE (x - I32Max) - I32Max - 2

NoStream == [offset |-> -1, length |-> -1]

VARIABLES
  pc,                 \* position of the program
  panic_msg,          \* message of the panic that ended the process, or ""
  ret,                \* value returned by upload_file: "none", "Ok", "Err"
  disk_size,          \* length of the file at `key` on disk; -1: no such file
  file_size,          \* local file_size (main.rs:67)
  upload_id,          \* local upload_id (main.rs:37)
  chunk_count,        \* local chunk_count (main.rs:72)
  size_of_last_chunk, \* local size_of_last_chunk (main.rs:73)
  chunk_index,        \* loop variable (main.rs:98)
  stream,             \* the ByteStream built for the current chunk
  upload_parts,       \* local Vec<CompletedPart> (main.rs:86)
  pb_positions,       \* positions given to pb.set_position, in order
  object_exists,      \* backend: an object exists at (bucket_name, key)
  open_sessions,      \* backend: upload ids of the open multipart uploads
  calls,              \* requests sent to the backend, in order
  interrupted         \* the process was killed by an interrupt signal

vars == <<pc, panic_msg, ret, disk_size, file_size, upload_id, chunk_count,
          size_of_last_chunk, chunk_index, stream, upload_parts,
          pb_positions, object_exists, open_sessions, calls, interrupted>>

locals == <<file_size, upload_id, chunk_count, size_of_last_chunk,
            chunk_index, stream, upload_parts>>

\* a request to the backend, as recorded in calls
Call(op, b, k, id, pn, off, len, parts, ok, tag) ==
  [op |-> op, bucket |-> b, key |-> k, upload_id |-> id,
   part_number |-> pn, offset |-> off, length |-> len, parts |-> parts,
   ok |-> ok, e_tag |-> tag]

\* CompletedPart::builder().e_tag(..).part_number(..).build() (main.rs:142-145)
CompletedPart(tag, pn) == [e_tag |-> tag, part_number |-> pn]

\* the process is alive at position p of the program; no step of the program
\* changes `interrupted`
At(p) == pc = p /\ ~interrupted /\ UNCHANGED interrupted

\* process::abort of a panic: unwrap/expect/panic! (main.rs:35,37,69,80,83,127,166,188,191)
Panic(msg) == pc' = "panicked" /\ panic_msg' = msg

Init ==
  /\ pc = "delete_object"
  /\ panic_msg = ""
  /\ ret = "none"
  /\ disk_size \in -1 .. MaxFileSize
  /\ file_size = 0
  /\ upload_id = NoUploadId
  /\ chunk_count = 0
  /\ size_of_last_chunk = 0
  /\ chunk_index = 0
  /\ stream = NoStream
  /\ upload_parts = <<>>
  /\ pb_positions = <<>>
  /\ object_exists \in BOOLEAN
  /\ open_sessions = {}
  /\ calls = <<>>
  /\ interrupted = FALSE

\* a main that opens the upload without deleting the object first
DeleteObject_Skipped ==
  /\ At("delete_object")
  /\ pc' = "create_multipart_upload"
  /\ UNCHANGED <<panic_msg, calls, object_exists>>
  /\ UNCHANGED <<ret, disk_size, locals, pb_positions, open_sessions>>

\* a delete whose result is dropped instead of unwrapped
DeleteObject_IgnoreError ==
  /\ At("delete_object")
  /\ \E ok \in BOOLEAN :
       /\ calls' = Append(calls, Call("delete_object", bucket_name, key, NoUploadId, 0, 0, 0, <<>>, ok, None))
       /\ object_exists' = IF ok THEN FALSE ELSE object_exists
  /\ pc' = "create_multipart_upload"
  /\ UNCHANGED panic_msg
  /\ UNCHANGED <<ret, disk_size, locals, pb_positions, open_sessions>>

\* main.rs:182-188: delete_object().send().await.unwrap()
DeleteObject ==
  /\ At("delete_object")
  /\ \E ok \in BOOLEAN :
       /\ calls' = Append(calls, Call("delete_object", bucket_name, key, NoUploadId, 0, 0, 0, <<>>, ok, None))
       /\ IF ok
            THEN /\ object_exists' = FALSE
                 /\ pc' = "create_multipart_upload"
                 /\ UNCHANGED panic_msg
            ELSE /\ Panic("delete_object")
                 /\ UNCHANGED object_exists
  /\ UNCHANGED <<ret, disk_size, locals, pb_positions, open_sessions>>

\* an initiate step that keeps an upload id other than the one returned
CreateMultipartUpload_WrongId ==
  /\ At("create_multipart_upload")
  /\ \/ \E id \in UploadIds :
          /\ calls' = Append(calls, Call("create_multipart_upload", bucket_name, key, id, 0, 0, 0, <<>>, TRUE, None))
          /\ open_sessions' = open_sessions \cup {id}
          /\ upload_id' \in UploadIds \ {id}
          /\ pc' = "metadata"
          /\ UNCHANGED panic_msg
     \/ /\ calls' = Append(calls, Call("create_multipart_upload", bucket_name, key, NoUploadId, 0, 0, 0, <<>>, FALSE, None))
        /\ Panic("create_multipart_upload")
        /\ UNCHANGED <<open_sessions, upload_id>>
     \/ /\ calls' = Append(calls, Call("create_multipart_upload", bucket_name, key, NoUploadId, 0, 0, 0, <<>>, TRUE, None))
        /\ Panic("upload_id")
        /\ UNCHANGED <<open_sessions, upload_id>>
  /\ UNCHANGED <<ret, disk_size, file_size, chunk_count, size_of_last_chunk,
                 chunk_index, stream, upload_parts, pb_positions, object_exists>>

\* main.rs:28-37: create_multipart_upload().send().await.unwrap(), upload_id().unwrap()
CreateMultipartUpload ==
  /\ At("create_multipart_upload")
  /\ \/ \E id \in UploadIds :
          /\ calls' = Append(calls, Call("create_multipart_upload", bucket_name, key, id, 0, 0, 0, <<>>, TRUE, None))
          /\ open_sessions' = open_sessions \cup {id}
          /\ upload_id' = id
          /\ pc' = "metadata"
          /\ UNCHANGED panic_msg
     \/ /\ calls' = Append(calls, Call("create_multipart_upload", bucket_name, key, NoUploadId, 0, 0, 0, <<>>, FALSE, None))
        /\ Panic("create_multipart_upload")
        /\ UNCHANGED <<open_sessions, upload_id>>
     \/ \* the response carries no upload id
        /\ calls' = Append(calls, Call("create_multipart_upload", bucket_name, key, NoUploadId, 0, 0, 0, <<>>, TRUE, None))
        /\ Panic("upload_id")
        /\ UNCHANGED <<open_sessions, upload_id>>
  /\ UNCHANGED <<ret, disk_size, file_size, chunk_count, size_of_last_chunk,
                 chunk_index, stream, upload_parts, pb_positions, object_exists>>

\* main.rs:66-70: tokio::fs::metadata(path).await.expect(..).len()
Metadata ==
  /\ At("metadata")
  /\ IF disk_size >= 0
       THEN /\ file_size' = disk_size
            /\ pc' = "plan"
            /\ UNCHANGED panic_msg
       ELSE /\ Panic("it exists I swear")
            /\ UNCHANGED file_size
  /\ UNCHANGED <<ret, disk_size, upload_id, chunk_count, size_of_last_chunk,
                 chunk_index, stream, upload_parts, pb_positions,
                 object_exists, open_sessions, calls>>

\* a plan that keeps the empty trailing chunk of an exact multiple
PlanOf_NoDecrement(size) ==
  LET count == (size \div CHUNK_SIZE) + 1
      last  == size % CHUNK_SIZE
  IN  [chunk_count |-> count,
       size_of_last_chunk |-> IF last = 0 THEN CHUNK_SIZE ELSE last]

\* main.rs:72-77: the chunk count and the size of the last chunk
PlanOf(size) ==
  LET count == (size \div CHUNK_SIZE) + 1
      last  == size % CHUNK_SIZE
  IN  IF last = 0
        THEN [chunk_count |-> count - 1, size_of_last_chunk |-> CHUNK_SIZE]
        ELSE [chunk_count |-> count, size_of_last_chunk |-> last]

TooManyChunks == "Too many chunks! Try increasing your chunk size."

\* a plan step without the MAX_CHUNKS ceiling
Plan_NoCeiling ==
  /\ At("plan")
  /\ chunk_count' = PlanOf(file_size).chunk_count
  /\ size_of_last_chunk' = PlanOf(file_size).size_of_last_chunk
  /\ IF file_size = 0
       THEN Panic("Bad file size.")
       ELSE pc' = "read_chunk" /\ UNCHANGED panic_msg
  /\ upload_parts' = <<>>
  /\ chunk_index' = 0
  /\ UNCHANGED <<ret, disk_size, file_size, upload_id, stream, pb_positions,
                 object_exists, open_sessions, calls>>

\* a plan step that rejects a file of exactly MAX_CHUNKS chunks
Plan_RejectAtLimit ==
  /\ At("plan")
  /\ chunk_count' = PlanOf(file_size).chunk_count
  /\ size_of_last_chunk' = PlanOf(file_size).size_of_last_chunk
  /\ IF file_size = 0
       THEN Panic("Bad file size.")
       ELSE IF chunk_count' >= MAX_CHUNKS
         THEN Panic(TooManyChunks)
         ELSE pc' = "read_chunk" /\ UNCHANGED panic_msg
  /\ upload_parts' = <<>>
  /\ chunk_index' = 0
  /\ UNCHANGED <<ret, disk_size, file_size, upload_id, stream, pb_positions,
                 object_exists, open_sessions, calls>>

\* main.rs:72-98: plan, the two checks, the empty part list, the progress
\* bar, the start of the range 0..chunk_count
Plan ==
  /\ At("plan")
  /\ chunk_count' = PlanOf(file_size).chunk_count
  /\ size_of_last_chunk' = PlanOf(file_size).size_of_last_chunk
  /\ IF file_size = 0
       THEN Panic("Bad file size.")
       ELSE IF chunk_count' > MAX_CHUNKS
         THEN Panic(TooManyChunks)
         ELSE pc' = "read_chunk" /\ UNCHANGED panic_msg
  /\ upload_parts' = <<>>
  /\ chunk_index' = 0
  /\ UNCHANGED <<ret, disk_size, file_size, upload_id, stream, pb_positions,
                 object_exists, open_sessions, calls>>

\* a chunk length that forgets the shorter last chunk
this_chunk_AlwaysFull == CHUNK_SIZE

\* main.rs:99-103
this_chunk == IF chunk_count - 1 = chunk_index THEN size_of_last_chunk ELSE CHUNK_SIZE
\* an offset counted from the end of the chunk instead of its start
uploaded_OffByOne == (chunk_index + 1) * CHUNK_SIZE

\* main.rs:104
uploaded == chunk_index * CHUNK_SIZE
\* a part number that keeps the 0-based chunk index
part_number_ZeroBased == AsI32(chunk_index)

\* main.rs:129
part_number == AsI32(chunk_index) + 1

\* main.rs:98-127: loop head and ByteStream::read_from()...build().await.unwrap();
\* main.rs:150-156 when the range 0..chunk_count is exhausted
ReadChunk ==
  /\ At("read_chunk")
  /\ IF chunk_index < chunk_count
       THEN \/ /\ stream' = [offset |-> uploaded, length |-> this_chunk]
               /\ pc' = "upload_part"
               /\ UNCHANGED panic_msg
            \/ /\ Panic("read_from")
               /\ UNCHANGED stream
       ELSE /\ pc' = "complete_multipart_upload"
            /\ UNCHANGED <<stream, panic_msg>>
  /\ UNCHANGED <<ret, disk_size, file_size, upload_id, chunk_count,
                 size_of_last_chunk, chunk_index, upload_parts, pb_positions,
                 object_exists, open_sessions, calls>>

\* a part upload that records no CompletedPart when the response has no e_tag
UploadPart_SkipUntagged ==
  /\ At("upload_part")
  /\ \/ \E tag \in {None} \cup {Some(t) : t \in ETags} :
          /\ calls' = Append(calls, Call("upload_part", bucket_name, key, upload_id, part_number,
                                         stream.offset, stream.length, <<>>, TRUE, tag))
          /\ upload_parts' = IF tag.some
                               THEN Append(upload_parts, CompletedPart(tag.v, part_number))
                               ELSE upload_parts
          /\ pb_positions' = Append(pb_positions, uploaded + this_chunk)
          /\ chunk_index' = chunk_index + 1
          /\ stream' = NoStream
          /\ pc' = "read_chunk"
          /\ UNCHANGED ret
     \/ /\ calls' = Append(calls, Call("upload_part", bucket_name, key, upload_id, part_number,
                                       stream.offset, stream.length, <<>>, FALSE, None))
        /\ ret' = "Err"
        /\ pc' = "main_unwrap"
        /\ UNCHANGED <<upload_parts, pb_positions, chunk_index, stream>>
  /\ UNCHANGED <<panic_msg, disk_size, file_size, upload_id, chunk_count,
                 size_of_last_chunk, object_exists, open_sessions>>

\* a part upload that moves the progress bar before the request is answered
UploadPart_PositionBeforeSend ==
  /\ At("upload_part")
  /\ pb_positions' = Append(pb_positions, uploaded + this_chunk)
  /\ \/ \E tag \in {None} \cup {Some(t) : t \in ETags} :
          /\ calls' = Append(calls, Call("upload_part", bucket_name, key, upload_id, part_number,
                                         stream.offset, stream.length, <<>>, TRUE, tag))
          /\ upload_parts' = Append(upload_parts,
                                    CompletedPart(unwrap_or_default(tag), part_number))
          /\ chunk_index' = chunk_index + 1
          /\ stream' = NoStream
          /\ pc' = "read_chunk"
          /\ UNCHANGED ret
     \/ /\ calls' = Append(calls, Call("upload_part", bucket_name, key, upload_id, part_number,
                                       stream.offset, stream.length, <<>>, FALSE, None))
        /\ ret' = "Err"
        /\ pc' = "main_unwrap"
        /\ UNCHANGED <<upload_parts, chunk_index, stream>>
  /\ UNCHANGED <<panic_msg, disk_size, file_size, upload_id, chunk_count,
                 size_of_last_chunk, object_exists, open_sessions>>

\* a part upload that is sent a second time when the first attempt fails
UploadPart_RetryOnce ==
  /\ At("upload_part")
  /\ \/ \E tag \in {None} \cup {Some(t) : t \in ETags} :
          /\ calls' = Append(calls, Call("upload_part", bucket_name, key, upload_id, part_number,
                                         stream.offset, stream.length, <<>>, TRUE, tag))
          /\ upload_parts' = Append(upload_parts,
                                    CompletedPart(unwrap_or_default(tag), part_number))
          /\ pb_positions' = Append(pb_positions, uploaded + this_chunk)
          /\ chunk_index' = chunk_index + 1
          /\ stream' = NoStream
          /\ pc' = "read_chunk"
          /\ UNCHANGED ret
     \/ /\ calls' = Append(calls, Call("upload_part", bucket_name, key, upload_id, part_number,
                                       stream.offset, stream.length, <<>>, FALSE, None))
        /\ IF calls[Len(calls)].op = "upload_part" /\ ~calls[Len(calls)].ok
             THEN ret' = "Err" /\ pc' = "main_unwrap"
             ELSE UNCHANGED <<ret, pc>>
        /\ UNCHANGED <<upload_parts, pb_positions, chunk_index, stream>>
  /\ UNCHANGED <<panic_msg, disk_size, file_size, upload_id, chunk_count,
                 size_of_last_chunk, object_exists, open_sessions>>

\* a part upload whose error is dropped instead of returned with `?`
UploadPart_IgnoreError ==
  /\ At("upload_part")
  /\ \/ \E tag \in {None} \cup {Some(t) : t \in ETags} :
          /\ calls' = Append(calls, Call("upload_part", bucket_name, key, upload_id, part_number,
                                         stream.offset, stream.length, <<>>, TRUE, tag))
          /\ upload_parts' = Append(upload_parts,
                                    CompletedPart(unwrap_or_default(tag), part_number))
     \/ /\ calls' = Append(calls, Call("upload_part", bucket_name, key, upload_id, part_number,
                                       stream.offset, stream.length, <<>>, FALSE, None))
        /\ UNCHANGED upload_parts
  /\ pb_positions' = Append(pb_positions, uploaded + this_chunk)
  /\ chunk_index' = chunk_index + 1
  /\ stream' = NoStream
  /\ pc' = "read_chunk"
  /\ UNCHANGED <<ret, panic_msg, disk_size, file_size, upload_id, chunk_count,
                 size_of_last_chunk, object_exists, open_sessions>>

\* main.rs:131-147: upload_part().send().await?, push of the CompletedPart,
\* pb.set_position, next iteration
UploadPart ==
  /\ At("upload_part")
  /\ \/ \E tag \in {None} \cup {Some(t) : t \in ETags} :
          /\ calls' = Append(calls, Call("upload_part", bucket_name, key, upload_id, part_number,
                                         stream.offset, stream.length, <<>>, TRUE, tag))
          /\ upload_parts' = Append(upload_parts,
                                    CompletedPart(unwrap_or_default(tag), part_number))
          /\ pb_positions' = Append(pb_positions, uploaded + this_chunk)
          /\ chunk_index' = chunk_index + 1
          /\ stream' = NoStream
          /\ pc' = "read_chunk"
          /\ UNCHANGED ret
     \/ /\ calls' = Append(calls, Call("upload_part", bucket_name, key, upload_id, part_number,
                                       stream.offset, stream.length, <<>>, FALSE, None))
        /\ ret' = "Err"
        /\ pc' = "main_unwrap"
        /\ UNCHANGED <<upload_parts, pb_positions, chunk_index, stream>>
  /\ UNCHANGED <<panic_msg, disk_size, file_size, upload_id, chunk_count,
                 size_of_last_chunk, object_exists, open_sessions>>

\* a finalize step that returns Ok(()) whatever the backend answered
CompleteMultipartUpload_IgnoreError ==
  /\ At("complete_multipart_upload")
  /\ \E ok \in BOOLEAN :
       /\ calls' = Append(calls, Call("complete_multipart_upload", bucket_name, key, upload_id, 0, 0, 0,
                                      upload_parts, ok, None))
       /\ IF ok
            THEN /\ object_exists' = TRUE
                 /\ open_sessions' = open_sessions \ {upload_id}
            ELSE UNCHANGED <<object_exists, open_sessions>>
  /\ ret' = "Ok"
  /\ pc' = "main_unwrap"
  /\ UNCHANGED <<panic_msg, disk_size, locals, pb_positions>>

\* a finalize step that is sent again when the backend rejects it
CompleteMultipartUpload_Retry ==
  /\ At("complete_multipart_upload")
  /\ \E ok \in BOOLEAN :
       /\ calls' = Append(calls, Call("complete_multipart_upload", bucket_name, key, upload_id, 0, 0, 0,
                                      upload_parts, ok, None))
       /\ IF ok
            THEN /\ object_exists' = TRUE
                 /\ open_sessions' = open_sessions \ {upload_id}
                 /\ ret' = "Ok"
                 /\ pc' = "main_unwrap"
            ELSE UNCHANGED <<object_exists, open_sessions, ret, pc>>
  /\ UNCHANGED <<panic_msg, disk_size, locals, pb_positions>>

\* main.rs:152-170: complete_multipart_upload().send().await.unwrap(), Ok(())
CompleteMultipartUpload ==
  /\ At("complete_multipart_upload")
  /\ \E ok \in BOOLEAN :
       /\ calls' = Append(calls, Call("complete_multipart_upload", bucket_name, key, upload_id, 0, 0, 0,
                                      upload_parts, ok, None))
       /\ IF ok
            THEN /\ object_exists' = TRUE
                 /\ open_sessions' = open_sessions \ {upload_id}
                 /\ ret' = "Ok"
                 /\ pc' = "main_unwrap"
                 /\ UNCHANGED panic_msg
            ELSE /\ Panic("complete_multipart_upload")
                 /\ UNCHANGED <<object_exists, open_sessions, ret>>
  /\ UNCHANGED <<disk_size, locals, pb_positions>>

\* main.rs:191: upload_file(..).await.unwrap()
MainUnwrap ==
  /\ At("main_unwrap")
  /\ IF ret = "Ok"
       THEN pc' = "exit" /\ UNCHANGED panic_msg
       ELSE Panic("upload_file")
  /\ UNCHANGED <<ret, disk_size, locals, pb_positions, object_exists,
                 open_sessions, calls>>

\* main.rs:173-192: main installs no signal handler, so an interrupt (Ctrl-C)
\* kills the process wherever it is; nothing is sent to the backend
Interrupt ==
  /\ pc \notin {"exit", "panicked"}
  /\ ~interrupted
  /\ interrupted' = TRUE
  /\ UNCHANGED <<pc, panic_msg, ret, disk_size, locals, pb_positions,
                 object_exists, open_sessions, calls>>

Next ==
  \/ DeleteObject
  \/ CreateMultipartUpload
  \/ Metadata
  \/ Plan
  \/ ReadChunk
  \/ UploadPart
  \/ CompleteMultipartUpload
  \/ MainUnwrap
  \/ Interrupt

Spec == Init /\ [][Next]_vars

\* the program's steps; every await of upload_file and main eventually returns
Step ==
  \/ DeleteObject
  \/ CreateMultipartUpload
  \/ Metadata
  \/ Plan
  \/ ReadChunk
  \/ UploadPart
  \/ CompleteMultipartUpload
  \/ MainUnwrap

\* the program under the assumption that every file read and backend call
\* returns: a step that stays possible is eventually taken
LiveSpec == Init /\ [][Next]_vars /\ WF_vars(Step)

(***************************************************************************)
(* Vocabulary of the properties                                            *)
(***************************************************************************)
CallsOf(op) == {i \in 1 .. Len(calls) : calls[i].op = op}
IsOkUpload(c) == c.op = "upload_part" /\ c.ok
\* the part uploads the backend acknowledged, in the order they were sent
OkUploads == SelectSeq(calls, IsOkUpload)
\* the loop ran through the whole range 0..chunk_count
AllPartsUploaded == chunk_count >= 1 /\ chunk_index = chunk_count
\* the process has ended
Terminated == pc \in {"exit", "panicked"} \/ interrupted
\* the plan step (main.rs:72-84) has been executed
Planned ==
  \/ pc \in {"read_chunk", "upload_part", "complete_multipart_upload",
             "main_unwrap", "exit"}
  \/ /\ pc = "panicked"
     /\ panic_msg \in {"Bad file size.", TooManyChunks, "read_from",
                       "complete_multipart_upload", "upload_file"}

\* C1: every complete_multipart_upload request carries exactly chunk_count
\* completed parts, numbered 1, 2, ..., chunk_count in that order.
C1_FinalizePartList ==
  \A i \in CallsOf("complete_multipart_upload") :
    /\ chunk_count >= 1
    /\ Len(calls[i].parts) = chunk_count
    /\ \A n \in 1 .. Len(calls[i].parts) : calls[i].parts[n].part_number = n

C1_Witness ==
  \E i \in CallsOf("complete_multipart_upload") : Len(calls[i].parts) >= 2

\* C2: for every file_size > 0 the plan has chunk_count >= 1,
\* (chunk_count - 1) * CHUNK_SIZE + size_of_last_chunk = file_size and
\* 0 < size_of_last_chunk <= CHUNK_SIZE; an exact multiple of CHUNK_SIZE gets
\* file_size / CHUNK_SIZE chunks, the last one of CHUNK_SIZE bytes.
C2_PlanCoversFile ==
  (Planned /\ file_size > 0) =>
    /\ chunk_count >= 1
    /\ (chunk_count - 1) * CHUNK_SIZE + size_of_last_chunk = file_size
    /\ 0 < size_of_last_chunk /\ size_of_last_chunk <= CHUNK_SIZE
    /\ (file_size % CHUNK_SIZE = 0) =>
         /\ chunk_count = file_size \div CHUNK_SIZE
         /\ size_of_last_chunk = CHUNK_SIZE

C2_Witness ==
  /\ Planned
  /\ file_size = 2 * CHUNK_SIZE
  /\ chunk_count = 2
  /\ size_of_last_chunk = CHUNK_SIZE

\* C3: the upload of part i sends offset (i - 1) * CHUNK_SIZE and length
\* CHUNK_SIZE, the last part the rest of the file; the acknowledged ranges
\* start at 0, each begins where the previous one ends, none is empty, and
\* after the whole loop they end at file_size.
C3_PartRanges ==
  /\ \A i \in CallsOf("upload_part") :
       /\ calls[i].part_number \in 1 .. chunk_count
       /\ calls[i].offset = (calls[i].part_number - 1) * CHUNK_SIZE
       /\ calls[i].length =
            IF calls[i].part_number = chunk_count
              THEN file_size - (chunk_count - 1) * CHUNK_SIZE
              ELSE CHUNK_SIZE
  /\ \A n \in 1 .. Len(OkUploads) :
       /\ OkUploads[n].length > 0
       /\ OkUploads[n].offset =
            IF n = 1 THEN 0 ELSE OkUploads[n - 1].offset + OkUploads[n - 1].length
  /\ AllPartsUploaded =>
       /\ Len(OkUploads) = chunk_count
       /\ OkUploads[chunk_count].offset + OkUploads[chunk_count].length = file_size

C3_Witness ==
  /\ AllPartsUploaded
  /\ chunk_count = 3
  /\ Len(OkUploads) = 3
  /\ OkUploads[3].length < CHUNK_SIZE

\* C4: a failed upload of part k is the last request of the run: upload_file
\* returns the error, part k + 1 is neither read nor uploaded, and no
\* complete_multipart_upload request is sent.
C4_PartFailureAborts ==
  \A i \in CallsOf("upload_part") :
    ~calls[i].ok =>
      /\ i = Len(calls)
      /\ ret = "Err"
      /\ pc \in {"main_unwrap", "panicked"}
      /\ chunk_index = calls[i].part_number - 1
      /\ Len(upload_parts) = calls[i].part_number - 1
      /\ CallsOf("complete_multipart_upload") = {}

C4_Witness ==
  /\ pc = "panicked"
  /\ panic_msg = "upload_file"
  /\ chunk_count = 3
  /\ \E i \in CallsOf("upload_part") : ~calls[i].ok /\ calls[i].part_number = 2

\* C5: upload_file returns Ok only after an acknowledged upload of every part
\* 1..chunk_count and an acknowledged complete_multipart_upload; the process
\* exits normally only then, and a run of upload_file that ends otherwise
\* (Err or panic) has not created the destination object.
C5_SuccessOnlyWhenComplete ==
  /\ ret = "Ok" =>
       /\ AllPartsUploaded
       /\ \A n \in 1 .. chunk_count :
            \E i \in CallsOf("upload_part") : calls[i].ok /\ calls[i].part_number = n
       /\ \E i \in CallsOf("complete_multipart_upload") : calls[i].ok
  /\ pc = "exit" => ret = "Ok"
  /\ (pc = "panicked" /\ panic_msg # "delete_object") =>
       /\ ret # "Ok"
       /\ ~object_exists
  /\ ret = "Err" => ~object_exists

C5_WitnessSuccess ==
  pc = "exit" /\ ret = "Ok" /\ object_exists /\ chunk_count = 3

\* C6 (as claimed): for a zero-length file the run sends no
\* create_multipart_upload, upload_part or complete_multipart_upload request.
C6_EmptyFileNoBackendCall ==
  disk_size = 0 =>
    /\ CallsOf("create_multipart_upload") = {}
    /\ CallsOf("upload_part") = {}
    /\ CallsOf("complete_multipart_upload") = {}

\* C7: the plan step panics with "Too many chunks!" exactly when
\* chunk_count > MAX_CHUNKS, that is when file_size > MAX_CHUNKS * CHUNK_SIZE;
\* a file of MAX_CHUNKS * CHUNK_SIZE bytes is planned with MAX_CHUNKS chunks,
\* and a rejected run sends no upload_part or complete_multipart_upload.
C7_TooManyChunks ==
  Planned =>
    /\ (panic_msg = TooManyChunks) <=> (chunk_count > MAX_CHUNKS)
    /\ (panic_msg = TooManyChunks) <=> (file_size > MAX_CHUNKS * CHUNK_SIZE)
    /\ file_size = MAX_CHUNKS * CHUNK_SIZE => chunk_count = MAX_CHUNKS
    /\ panic_msg = TooManyChunks =>
         /\ pc = "panicked"
         /\ CallsOf("upload_part") = {}
         /\ CallsOf("complete_multipart_upload") = {}

C7_Witness ==
  /\ pc = "panicked"
  /\ panic_msg = TooManyChunks
  /\ file_size = MAX_CHUNKS * CHUNK_SIZE + 1

\* C8: the positions given to the progress bar never decrease, never exceed
\* file_size, and after the whole loop the last one equals file_size.
C8_ProgressMonotone ==
  /\ \A n \in 1 .. Len(pb_positions) :
       /\ pb_positions[n] <= file_size
       /\ n > 1 => pb_positions[n - 1] <= pb_positions[n]
  /\ AllPartsUploaded =>
       /\ Len(pb_positions) = chunk_count
       /\ pb_positions[Len(pb_positions)] = file_size

C8_Witness ==
  /\ AllPartsUploaded
  /\ Len(pb_positions) = 3
  /\ pb_positions[3] = file_size
  /\ file_size % CHUNK_SIZE # 0

\* the requests that consume the session `id`
Consuming(id) ==
  {i \in 1 .. Len(calls) :
     /\ calls[i].op \in {"complete_multipart_upload", "abort_multipart_upload"}
     /\ calls[i].upload_id = id}

\* C9 (as claimed): when the run has ended, every session that was opened has
\* been consumed by exactly one finalize or abort request.
C9_SessionAlwaysConsumed ==
  Terminated =>
    \A i \in CallsOf("create_multipart_upload") :
      calls[i].ok /\ calls[i].upload_id # NoUploadId =>
        Cardinality(Consuming(calls[i].upload_id)) = 1

\* C9 (amended): no abort request is ever sent and a session gets at most one
\* finalize request, after which no part is uploaded; a run in which
\* upload_file returns Ok sent exactly one, acknowledged, and the session is
\* closed; a run that fails before the finalize request sent none and leaves
\* the session open; a failed finalize request leaves it open too.
C9_SessionConsumedOnSuccessOnly ==
  /\ CallsOf("abort_multipart_upload") = {}
  /\ \A i \in CallsOf("create_multipart_upload") :
       Cardinality(Consuming(calls[i].upload_id)) <= 1
  /\ \A i \in CallsOf("complete_multipart_upload") :
       \A j \in CallsOf("upload_part") : j < i
  /\ ret = "Ok" =>
       /\ Cardinality(Consuming(upload_id)) = 1
       /\ \A i \in Consuming(upload_id) : calls[i].ok
       /\ upload_id \notin open_sessions
  /\ (Terminated /\ ret # "Ok" /\ upload_id # NoUploadId) =>
       /\ upload_id \in open_sessions
       /\ panic_msg # "complete_multipart_upload" => Consuming(upload_id) = {}
       /\ panic_msg = "complete_multipart_upload" =>
            \A i \in Consuming(upload_id) : ~calls[i].ok

C9_WitnessLeftOpen ==
  /\ pc = "panicked"
  /\ panic_msg = "upload_file"
  /\ upload_id \in open_sessions
  /\ Consuming(upload_id) = {}
  /\ Len(upload_parts) >= 1

\* C10: a run sends at most one create_multipart_upload request; every
\* upload_part and complete_multipart_upload request comes after it and
\* carries the upload id it returned and its bucket and key.
C10_OneSessionOneDestination ==
  /\ Cardinality(CallsOf("create_multipart_upload")) <= 1
  /\ \A j \in CallsOf("upload_part") \cup CallsOf("complete_multipart_upload") :
       \E i \in CallsOf("create_multipart_upload") :
         /\ i < j
         /\ calls[i].ok
         /\ calls[i].upload_id \in UploadIds
         /\ calls[j].upload_id = calls[i].upload_id
         /\ calls[j].bucket = calls[i].bucket
         /\ calls[j].key = calls[i].key

C10_Witness ==
  /\ Cardinality(CallsOf("upload_part")) >= 2
  /\ CallsOf("complete_multipart_upload") # {}

\* C11: parts are handled one at a time in index order: while chunk
\* chunk_index is read or uploaded, exactly the parts 1..chunk_index have been
\* acknowledged and recorded, in that order, no stream of another chunk
\* exists, and the upload requests carry strictly increasing part numbers.
C11_SequentialParts ==
  /\ pc = "read_chunk" => stream = NoStream
  /\ pc = "upload_part" =>
       /\ stream # NoStream
       /\ stream.offset = chunk_index * CHUNK_SIZE
  /\ pc \in {"read_chunk", "upload_part"} =>
       /\ Len(upload_parts) = chunk_index
       /\ Len(OkUploads) = chunk_index
       /\ \A n \in 1 .. chunk_index :
            /\ OkUploads[n].part_number = n
            /\ upload_parts[n].part_number = n
  /\ \A i, j \in CallsOf("upload_part") :
       i < j => calls[i].ok /\ calls[i].part_number < calls[j].part_number

C11_Witness ==
  /\ pc = "upload_part"
  /\ chunk_index = 2
  /\ Len(upload_parts) = 2
  /\ stream.offset = 2 * CHUNK_SIZE

\* an acknowledged complete_multipart_upload request has been sent
FinalizeSucceeded ==
  \E i \in CallsOf("complete_multipart_upload") : calls[i].ok

\* C12: once the session is open the destination object exists exactly when
\* a complete_multipart_upload request has succeeded; a run interrupted
\* before that leaves no object, an open session and no abort request.
C12_NoObjectBeforeFinalize ==
  upload_id # NoUploadId =>
    /\ object_exists <=> FinalizeSucceeded
    /\ (interrupted /\ ~FinalizeSucceeded) =>
         /\ ~object_exists
         /\ upload_id \in open_sessions
         /\ CallsOf("abort_multipart_upload") = {}

C12_Witness ==
  /\ interrupted
  /\ pc = "upload_part"
  /\ chunk_index >= 1
  /\ ~object_exists
  /\ upload_id \in open_sessions

RECURSIVE SumLengths(_)
SumLengths(q) == IF q = <<>> THEN 0 ELSE q[1].length + SumLengths(Tail(q))

Min(a, b) == IF a <= b THEN a ELSE b

\* main.rs:90,147: the position of the progress bar, 0 when it is created
pb_position ==
  IF pb_positions = <<>> THEN 0 ELSE pb_positions[Len(pb_positions)]

\* C13: the position of the progress bar is the sum of the lengths of the
\* acknowledged parts, that is min(k * CHUNK_SIZE, file_size) after k recorded
\* parts; it is set once per acknowledged part and never for a failed one.
C13_BytesDone ==
  /\ pb_position = SumLengths(OkUploads)
  /\ pb_position = Min(Len(upload_parts) * CHUNK_SIZE, file_size)
  /\ Len(pb_positions) = Len(OkUploads)

C13_Witness ==
  /\ ret = "Err"
  /\ Len(upload_parts) = 1
  /\ pb_position = CHUNK_SIZE
  /\ \E i \in CallsOf("upload_part") : ~calls[i].ok /\ calls[i].part_number = 2

\* no part number is sent twice, at most chunk_count parts and one finalize
NoRetry ==
  /\ Cardinality(CallsOf("upload_part")) <= chunk_count
  /\ Cardinality(CallsOf("complete_multipart_upload")) <= 1
  /\ \A i, j \in CallsOf("upload_part") :
       calls[i].part_number = calls[j].part_number => i = j

\* C14: when every read and backend call returns, the run ends (exit, panic
\* or interrupt), and it never sends more than chunk_count upload_part
\* requests, more than one complete_multipart_upload, or a part number twice.
C14_TerminatesWithoutRetry == (<>Terminated) /\ []NoRetry

C14_Witness ==
  /\ pc = "exit"
  /\ chunk_count = MAX_CHUNKS
  /\ Cardinality(CallsOf("upload_part")) = chunk_count
  /\ Cardinality(CallsOf("complete_multipart_upload")) = 1

\* C15: delete_object is the first request of the program and is sent once;
\* every other request follows a successful delete, and a failed delete ends
\* the run with no further request.
C15_DeleteOnceFirst ==
  /\ Cardinality(CallsOf("delete_object")) <= 1
  /\ pc # "delete_object" => Cardinality(CallsOf("delete_object")) = 1
  /\ calls # <<>> => calls[1].op = "delete_object"
  /\ Len(calls) >= 2 => calls[1].ok
  /\ (calls # <<>> /\ ~calls[1].ok) =>
       /\ pc = "panicked"
       /\ panic_msg = "delete_object"
       /\ upload_id = NoUploadId

C15_Witness ==
  /\ Len(calls) >= 3
  /\ calls[1].op = "delete_object"
  /\ calls[1].ok
  /\ calls[2].op = "create_multipart_upload"

\* C16 (as claimed): every completed part sent to complete_multipart_upload
\* has a non-empty e_tag, the one the backend returned for that part number.
C16_TagsNonEmpty ==
  \A i \in CallsOf("complete_multipart_upload") :
    \A n \in 1 .. Len(calls[i].parts) :
      /\ calls[i].parts[n].e_tag # ""
      /\ \E j \in CallsOf("upload_part") :
           /\ calls[j].ok
           /\ calls[j].part_number = calls[i].parts[n].part_number
           /\ calls[j].e_tag = Some(calls[i].parts[n].e_tag)

\* C17: every part number sent lies in 1..MAX_CHUNKS and is the chunk index
\* plus one; the chunk index is below the i32 maximum, so `as i32` keeps it.
C17_PartNumberRange ==
  /\ MAX_CHUNKS <= I32Max
  /\ \A i \in CallsOf("upload_part") :
       /\ calls[i].part_number \in 1 .. MAX_CHUNKS
       /\ calls[i].part_number = (calls[i].offset \div CHUNK_SIZE) + 1
  /\ pc = "upload_part" =>
       /\ chunk_index < MAX_CHUNKS
       /\ AsI32(chunk_index) = chunk_index
       /\ part_number = chunk_index + 1

C17_Witness ==
  \E i \in CallsOf("upload_part") :
    calls[i].part_number = MAX_CHUNKS /\ calls[i].offset = (MAX_CHUNKS - 1) * CHUNK_SIZE

====
